---- MODULE Spec2Model ----
(***************************************************************************)
(* Round release and guess submission of the location-guessing game.       *)
(*                                                                         *)
(* The request handlers of src/app/api/games/release-round/route.ts and    *)
(* src/app/api/guesses/route.ts run as independent, possibly concurrent    *)
(* handlers over one database.  Every `await db...` of a handler is one     *)
(* atomic step on the tables; between two awaits any other handler may     *)
(* run.  A game type id "kind:key" is the record [kind, key]; an unset     *)
(* (null) game type is NoType.                                             *)
(***************************************************************************)
EXTENDS Integers, Sequences, FiniteSets, TLC

----------------------------------------------------------------------------
(* Bounds *)

\* number of requests (release-round and submit-guess) that are in flight or
\* have written rows
MaxRequests == 3
\* rows of the locations table for Switzerland at the start
CountryPoolSize == 2
\* greatest locationsPerRound a game is created with
MaxLocationsPerRound == 2
\* rows added to the imageLocations table
MaxAddedLocations == 1
\* values Math.random() takes: k / RandSteps for k in 0..RandSteps - 1
RandSteps == 4

----------------------------------------------------------------------------
(* Static data *)

Users == {"u1", "u2", "u3"}
GameIds == {"g1"}
GroupId == "grp"

\* groupMembers rows of the one group: u1 is its admin, u2 a member, u3 is
\* not a member.
groupMembers ==
    { [groupId |-> GroupId, userId |-> "u1", role |-> "admin"],
      [groupId |-> GroupId, userId |-> "u2", role |-> "member"] }

NoType == [kind |-> "null", key |-> ""]
CountrySwitzerland == [kind |-> "country", key |-> "switzerland"]
WorldCapitals == [kind |-> "world", key |-> "capitals"]
ImageGarten == [kind |-> "image", key |-> "garten"]

\* the gameType values a release request carries (NoType: none given)
RequestedGameTypes == {NoType, WorldCapitals}
\* the locationsPerRound values a release request carries (0: none given)
RequestedLocationsPerRound == {0, 2, -1}
\* the same for the requests that race with each other
RacingGameTypes == {NoType}
RacingLocationsPerRound == {0}

\* the timeout flag and the coordinates a guess request carries
GuessInputs ==
    { [timeout |-> TRUE, latitude |-> 0, longitude |-> 0],
      [timeout |-> TRUE, latitude |-> 47, longitude |-> 8],
      [timeout |-> FALSE, latitude |-> 47, longitude |-> 8] }
\* the same for the requests that race with each other
RacingGuessInputs == {[timeout |-> FALSE, latitude |-> 47, longitude |-> 8]}

----------------------------------------------------------------------------
(* Pure helpers *)

isWorldGameType(gameTypeId) == gameTypeId.kind = "world"

isImageGameType(gameTypeId) == gameTypeId.kind = "image"

\* "" stands for null
getWorldCategory(gameTypeId) ==
    IF ~isWorldGameType(gameTypeId) THEN "" ELSE gameTypeId.key

getImageMapId(gameTypeId) ==
    IF ~isImageGameType(gameTypeId) THEN "" ELSE gameTypeId.key

getGameTypeFromCountry(country) == [kind |-> "country", key |-> country]

getEffectiveGameType(game) ==
    IF game.gameType # NoType THEN game.gameType
    ELSE getGameTypeFromCountry(game.country)

\* COUNTRIES[countryKey] || COUNTRIES[DEFAULT_COUNTRY], then name.en
getLocationCountryName(countryKey) ==
    IF countryKey = "slovenia" THEN "Slovenia" ELSE "Switzerland"

\* a || b on numbers: 0 (and undefined) is falsy
OrElse(a, b) == IF a # 0 THEN a ELSE b

Max(a, b) == IF a >= b THEN a ELSE b
Min(a, b) == IF a <= b THEN a ELSE b

\* Array.prototype.slice(0, end): a negative end counts from the back
Slice(s, end) ==
    LET k == IF end < 0 THEN Max(Len(s) + end, 0) ELSE Min(end, Len(s))
    IN  SubSeq(s, 1, k)

\* the orders [...xs].sort(() => Math.random() - 0.5) can leave xs in
Shuffles(S) ==
    { s \in [1..Cardinality(S) -> S] : \A i, j \in DOMAIN s : i # j => s[i] # s[j] }

Range(s) == { s[i] : i \in DOMAIN s }

----------------------------------------------------------------------------
(* Game type registry, distance and score *)
(*                                                                         *)
(* Distances are whole metres: the 400 km of the registry are 400000, the  *)
(* 0.350 km of the image map are 350.  A nullable column holds <<>> for    *)
(* null and <<v>> for the value v.                                         *)

Null == <<>>
Some(v) == <<v>>

CountrySlovenia == [kind |-> "country", key |-> "slovenia"]
WorldTypes ==
    { [kind |-> "world", key |-> k] :
        k \in {"highest-mountains", "capitals", "famous-places", "unesco",
               "airports"} }

\* GAME_TYPES: the type, timeoutPenalty, scoreScaleFactor and bounds of each
\* entry; the bounds of a country are those of COUNTRIES, in thousandths of
\* a degree
GAME_TYPES ==
    [ id \in {CountrySwitzerland, CountrySlovenia, ImageGarten} \cup WorldTypes |->
        IF id = CountrySwitzerland
        THEN [type |-> "country", timeoutPenalty |-> 400000,
              scoreScaleFactor |-> 100000,
              bounds |-> Some([southWest |-> [lat |-> 45800, lng |-> 5900],
                               northEast |-> [lat |-> 47800, lng |-> 10500]])]
        ELSE IF id = CountrySlovenia
        THEN [type |-> "country", timeoutPenalty |-> 250000,
              scoreScaleFactor |-> 60000,
              bounds |-> Some([southWest |-> [lat |-> 45400, lng |-> 13400],
                               northEast |-> [lat |-> 46900, lng |-> 16600]])]
        ELSE IF id = ImageGarten
        THEN [type |-> "image", timeoutPenalty |-> 350,
              scoreScaleFactor |-> 35, bounds |-> Null]
        ELSE [type |-> "world", timeoutPenalty |-> 5000000,
              scoreScaleFactor |-> 3000000, bounds |-> Null] ]

DEFAULT_GAME_TYPE == CountrySwitzerland

\* GAME_TYPES[gameTypeId] || GAME_TYPES[DEFAULT_GAME_TYPE]
getGameTypeConfig(gameTypeId) ==
    IF gameTypeId \in DOMAIN GAME_TYPES
    THEN GAME_TYPES[gameTypeId]
    ELSE GAME_TYPES[DEFAULT_GAME_TYPE]

\* ln(100 / (k - 1/2)) to four decimals, times 10^4, for k = 1..100:
\* 100 * e^(-x) rounds to k or more exactly when x <= ln(100 / (k - 1/2))
ScoreThresholds ==
    << 52983, 41997, 36888, 33524, 31010, 29004, 27333, 25902, 24651, 23538,
       22537, 21628, 20794, 20024, 19310, 18643, 18018, 17429, 16873, 16347,
       15847, 15371, 14916, 14481, 14064, 13664, 13280, 12909, 12552, 12207,
       11874, 11551, 11239, 10936, 10642, 10356, 10078, 9808, 9545, 9288,
       9038, 8794, 8556, 8324, 8096, 7874, 7657, 7444, 7236, 7031,
       6831, 6635, 6443, 6254, 6069, 5887, 5709, 5533, 5361, 5191,
       5025, 4861, 4700, 4541, 4385, 4231, 4079, 3930, 3783, 3638,
       3495, 3354, 3215, 3078, 2943, 2810, 2678, 2548, 2420, 2294,
       2169, 2045, 1923, 1803, 1684, 1566, 1450, 1335, 1221, 1109,
       998, 888, 779, 672, 565, 460, 356, 253, 151, 50 >>

\* floor(s * t / 10^4), computed in parts that stay within 32 bits
Scaled(s, t) ==
    LET a == s \div 1000
        b == s % 1000
    IN  (a * t) \div 10 + (((a * t) % 10) * 1000 + b * t) \div 10000

\* a score that falls linearly and is not clamped
LinearScore(distanceKm, gameType) ==
    100 - (100 * (distanceKm \div 1000))
            \div (getGameTypeConfig(gameType).scoreScaleFactor \div 1000 + 1)

\* round(100 * e^(-distance / scoreScaleFactor)), clamped to 0..100
calculateScore(distanceKm, gameType) ==
    LET scale == getGameTypeConfig(gameType).scoreScaleFactor
        rounded == Cardinality({ k \in 1..100 :
                                   distanceKm <= Scaled(scale, ScoreThresholds[k]) })
    IN  Max(0, Min(100, rounded))

Abs(x) == IF x < 0 THEN -x ELSE x

\* a pixel distance converted at one metre per pixel
PixelDistanceUnscaled(x1, y1, x2, y2) ==
    LET d2 == (x2 - x1) * (x2 - x1) + (y2 - y1) * (y2 - y1)
    IN  Max(0, CHOOSE m \in 0..(Abs(x2 - x1) + Abs(y2 - y1)) :
                 m * m <= d2 /\ (m + 1) * (m + 1) > d2)

\* Math.round(sqrt(dx^2 + dy^2) * 10 / 92) metres: the greatest m with
\* m - 1/2 <= sqrt(d2) * 10 / 92, that is (23 * (2m - 1))^2 <= 25 * d2
calculatePixelDistance(x1, y1, x2, y2) ==
    LET d2 == (x2 - x1) * (x2 - x1) + (y2 - y1) * (y2 - y1)
        ms == { m \in 1..(Abs(x2 - x1) + Abs(y2 - y1)) :
                  (23 * (2 * m - 1)) * (23 * (2 * m - 1)) <= 25 * d2 }
    IN  IF ms = {} THEN 0 ELSE CHOOSE m \in ms : \A o \in ms : o <= m

\* The haversine distance of two points on one meridian (lon1 = lon2), in
\* whole degrees at most 68 apart: 6371 * pi / 180 = 111.19493 km for each
\* degree, rounded to a tenth of a km.
calculateDistance(lat1, lon1, lat2, lon2) ==
    100 * ((11119493 * Abs(lat2 - lat1) + 5000) \div 10000)

----------------------------------------------------------------------------
(* State *)

VARIABLES
    games,        \* games table: GameIds -> row
    gameRounds,   \* gameRounds table: set of rows
    guesses,      \* guesses table: set of rows
    pool,         \* locations, worldLocations and imageLocations rows
    rel,          \* release-round handlers: slot -> locals
    gs,           \* submit-guess handlers: slot -> locals
    response,     \* the answer sent by the step that led here, if it sent one
    released,     \* history: the successful releases [batch, gameId, round]
    calc,         \* a call of a library function: its arguments and its result
    ls,           \* list-guesses handler (GET /api/guesses): its locals
    cr            \* create-game handlers (POST /api/games): slot -> locals

vars ==
    <<games, gameRounds, guesses, pool, rel, gs, response, released, calc, ls, cr>>

\* handler instances; a request takes the first free one
RelSlots == {1, 2}
GuessSlots == {1, 2}
CreateSlots == {1, 2}

\* the state of a game right after its creation (POST /api/games):
\* status active, currentRound 0, leaderboard hidden
GroupGame ==
    [mode |-> "group", groupId |-> GroupId, userId |-> "",
     country |-> "switzerland", gameType |-> NoType, locationsPerRound |-> 1,
     status |-> "active", currentRound |-> 0, leaderboardRevealed |-> FALSE]

SoloGame ==
    [mode |-> "solo", groupId |-> "", userId |-> "u2",
     country |-> "switzerland", gameType |-> ImageGarten,
     locationsPerRound |-> 1,
     status |-> "active", currentRound |-> 0, leaderboardRevealed |-> FALSE]

\* latitude and longitude are the y and x pixel columns of an imageLocations
\* row
InitialPool ==
    { [id |-> <<"l", i>>, table |-> "locations", key |-> "Switzerland",
       latitude |-> 46 + i, longitude |-> 8]
        : i \in 1..CountryPoolSize }
    \cup { [id |-> <<"w", 1>>, table |-> "worldLocations", key |-> "capitals",
            latitude |-> 50, longitude |-> 8],
           [id |-> <<"i", 1>>, table |-> "imageLocations", key |-> "garten",
            latitude |-> 47, longitude |-> 100],
           [id |-> <<"i", 2>>, table |-> "imageLocations", key |-> "garten",
            latitude |-> 47, longitude |-> 8] }

IdleRelease ==
    [pc |-> "idle", gameId |-> "", gameType |-> NoType, n |-> 0,
     currentRound |-> 0, used |-> {}, selected |-> <<>>, source |-> "",
     batch |-> 0]

IdleGuess ==
    [pc |-> "idle", user |-> "", gameRoundId |-> <<>>,
     timeout |-> FALSE, latitude |-> 0, longitude |-> 0, location |-> Null]

\* n and round: the locationsInRound and currentRound a release reports;
\* gameRoundId: the round the answered guess request named; distanceKm,
\* score and gameType: what an accepted guess is answered with
NoResponse ==
    [kind |-> "none", result |-> "", n |-> 0, round |-> 0, gameRoundId |-> <<>>,
     distanceKm |-> 0, score |-> 0, gameType |-> NoType]

\* no library function is being called on its own
NoCalc == [op |-> "none"]

\* result: the answer of the finished request; listed: the guesses it
\* returned, each with the score and the game type it was listed with
IdleList ==
    [pc |-> "idle", user |-> "", targetUserId |-> "", gameId |-> "",
     result |-> "", listed |-> {}]

IdleCreate ==
    [pc |-> "idle", user |-> "", groupId |-> "", locationsPerRound |-> 0]

Init ==
    /\ games \in [GameIds -> {GroupGame, SoloGame}]
    /\ gameRounds = {}
    /\ guesses = {}
    /\ pool = InitialPool
    /\ rel = [p \in RelSlots |-> IdleRelease]
    /\ gs = [q \in GuessSlots |-> IdleGuess]
    /\ response = NoResponse
    /\ released = {}
    /\ calc = NoCalc
    /\ ls = IdleList
    /\ cr = [c \in CreateSlots |-> IdleCreate]

\* games created with any locationsPerRound from 1 on (POST /api/games)
InitPool ==
    /\ games \in { [g \in GameIds |-> [game EXCEPT !.locationsPerRound = n]] :
                      game \in {GroupGame, SoloGame},
                      n \in 1..MaxLocationsPerRound }
    /\ gameRounds = {}
    /\ guesses = {}
    /\ pool = InitialPool
    /\ rel = [p \in RelSlots |-> IdleRelease]
    /\ gs = [q \in GuessSlots |-> IdleGuess]
    /\ response = NoResponse
    /\ released = {}
    /\ calc = NoCalc
    /\ ls = IdleList
    /\ cr = [c \in CreateSlots |-> IdleCreate]

\* the insert batches of release requests that reached the gameRounds table
Batches == { r.id[1] : r \in gameRounds }

\* requests that have written rows, and handlers that have not written yet
Started ==
    Cardinality(Batches) + Cardinality(guesses)
    + Cardinality({ p \in DOMAIN rel : rel[p].pc \in {"readUsed", "readPool", "insert"} })
    + Cardinality({ q \in DOMAIN gs : gs[q].pc # "idle" })

FirstFree(slots, p) ==
    /\ slots[p].pc = "idle"
    /\ \A o \in DOMAIN slots : o < p => slots[o].pc # "idle"

----------------------------------------------------------------------------
(* release-round: POST /api/games/release-round *)

Membership(groupId, userId) ==
    { m \in groupMembers : m.groupId = groupId /\ m.userId = userId }

\* an authorization that lets every member of the group release
MemberMayRelease(game, user) ==
    IF game.mode = "group"
    THEN Membership(game.groupId, user) # {}
    ELSE game.userId = user

\* lines 40-71: group games need an admin of the group, solo and training
\* games their owner
MayRelease(game, user) ==
    IF game.mode = "group"
    THEN \E m \in Membership(game.groupId, user) : m.role = "admin"
    ELSE game.userId = user

\* the answer of a release request: n is the locationsInRound and round the
\* currentRound it reports
ReleaseResponse(result, n, round) ==
    [NoResponse EXCEPT !.kind = "release", !.result = result, !.n = n,
                       !.round = round]

\* line 74
EffectiveGameType(requestedGameType, game) ==
    IF requestedGameType # NoType THEN requestedGameType
    ELSE getEffectiveGameType(game)

\* line 79
EffectiveLocationsPerRound(requestedLocationsPerRound, game) ==
    OrElse(requestedLocationsPerRound, game.locationsPerRound)

\* lines 11-79: read the game, authorize, resolve the effective type and count
ReleaseBegin(p, user, gameId, requestedGameType, requestedLocationsPerRound) ==
    /\ FirstFree(rel, p)
    /\ LET game == games[gameId]
       IN  IF ~MayRelease(game, user)
           THEN /\ response' = ReleaseResponse("forbidden", 0, 0)
                /\ UNCHANGED rel
           ELSE /\ Started < MaxRequests
                /\ rel' = [rel EXCEPT ![p] = [IdleRelease EXCEPT
                    !.pc = "readUsed",
                    !.gameId = gameId,
                    !.gameType = EffectiveGameType(requestedGameType, game),
                    !.n = EffectiveLocationsPerRound(requestedLocationsPerRound, game),
                    !.currentRound = game.currentRound]]
                /\ response' = NoResponse
    /\ UNCHANGED <<games, gameRounds, guesses, pool, gs, released, calc, ls, cr>>

\* the locationIds of the rows of the game's current round only
UsedInCurrentRound(gameId) ==
    { r.locationId : r \in { x \in gameRounds :
                                x.gameId = gameId
                                /\ x.roundNumber = games[gameId].currentRound } }

\* lines 81-87: the locationIds of every gameRounds row of the game
UsedLocationIds(gameId) ==
    { r.locationId : r \in { x \in gameRounds : x.gameId = gameId } }

ReleaseReadUsed(p) ==
    /\ rel[p].pc = "readUsed"
    /\ rel' = [rel EXCEPT ![p].pc = "readPool",
                          ![p].used = UsedLocationIds(rel[p].gameId)]
    /\ UNCHANGED <<games, gameRounds, guesses, pool, gs, released, calc, ls, cr>>
    /\ response' = NoResponse

\* the default of the column for every type
DefaultLocationSource(gameType) == "locations"

\* lines 91, 114, 135
LocationSource(gameType) ==
    IF isImageGameType(gameType) THEN "imageLocations"
    ELSE IF isWorldGameType(gameType) THEN "worldLocations"
    ELSE "locations"

\* lines 93-153: the rows of the type's table
PoolOf(gameType) ==
    IF isImageGameType(gameType)
    THEN IF getImageMapId(gameType) # ""
         THEN { l \in pool : l.table = "imageLocations"
                               /\ l.key = getImageMapId(gameType) }
         ELSE {}
    ELSE IF isWorldGameType(gameType)
    THEN IF getWorldCategory(gameType) # ""
         THEN { l \in pool : l.table = "worldLocations"
                               /\ l.key = getWorldCategory(gameType) }
         ELSE {}
    ELSE { l \in pool : l.table = "locations"
                          /\ l.key = getLocationCountryName(gameType.key) }

\* every location of the type, used or not
AllLocations(gameType, usedLocationIds) ==
    { l.id : l \in PoolOf(gameType) }

\* lines 102-103, 124-125, 145-146: those of them that are not used yet
AvailableLocations(gameType, usedLocationIds) ==
    { l.id : l \in { x \in PoolOf(gameType) : x.id \notin usedLocationIds } }

\* a comparison that also rejects a pool of exactly n
InsufficientOrEqual(available, n) == Cardinality(available) <= n

\* a comparison that lets a pool one short pass
InsufficientByTwo(available, n) == Cardinality(available) < n - 1

\* line 156
Insufficient(available, n) == Cardinality(available) < n

\* lines 89-167: read the pool, reject when too few are left, else pick
ReleaseReadPool(p) ==
    /\ rel[p].pc = "readPool"
    /\ LET available == AvailableLocations(rel[p].gameType, rel[p].used)
       IN  IF Insufficient(available, rel[p].n)
           THEN /\ response' = ReleaseResponse("insufficient", 0, 0)
                /\ rel' = [rel EXCEPT ![p] = IdleRelease]
           ELSE /\ \E shuffled \in Shuffles(available) :
                      rel' = [rel EXCEPT
                                ![p].pc = "insert",
                                ![p].used = {},
                                ![p].selected = Slice(shuffled, rel[p].n),
                                ![p].source = LocationSource(rel[p].gameType)]
                /\ response' = NoResponse
    /\ UNCHANGED <<games, gameRounds, guesses, pool, gs, released, calc, ls, cr>>

\* lines 110-111, 131-132, 135: roundCountry, the image map id (or "image"),
\* "world", or the country key of the effective game type
RoundCountry(effectiveGameType) ==
    IF isImageGameType(effectiveGameType)
    THEN (IF getImageMapId(effectiveGameType) # ""
          THEN getImageMapId(effectiveGameType) ELSE "image")
    ELSE IF isWorldGameType(effectiveGameType) THEN "world"
    ELSE effectiveGameType.key

\* rows numbered with the round the game is in, not with the next one
GameRoundsForCurrentRound(p) ==
    { [id |-> <<Cardinality(Batches) + 1, i>>,
       gameId |-> rel[p].gameId,
       roundNumber |-> rel[p].currentRound,
       locationIndex |-> i,
       locationId |-> rel[p].selected[i],
       locationSource |-> rel[p].source,
       country |-> RoundCountry(rel[p].gameType),
       gameType |-> rel[p].gameType] : i \in DOMAIN rel[p].selected }

\* lines 169-183; the id stands for nanoid(), fresh for every row: the number
\* of the insert batch and the place in it
GameRoundsToInsert(p) ==
    { [id |-> <<Cardinality(Batches) + 1, i>>,
       gameId |-> rel[p].gameId,
       roundNumber |-> rel[p].currentRound + 1,
       locationIndex |-> i,
       locationId |-> rel[p].selected[i],
       locationSource |-> rel[p].source,
       country |-> RoundCountry(rel[p].gameType),
       gameType |-> rel[p].gameType] : i \in DOMAIN rel[p].selected }

\* line 186; values([]) of an empty batch throws, which the catch turns
\* into the 500 answer
ReleaseInsert(p) ==
    /\ rel[p].pc = "insert"
    /\ IF rel[p].selected = <<>>
       THEN /\ response' = ReleaseResponse("error", 0, 0)
            /\ rel' = [rel EXCEPT ![p] = IdleRelease]
            /\ UNCHANGED gameRounds
       ELSE /\ gameRounds' = gameRounds \cup GameRoundsToInsert(p)
            /\ rel' = [rel EXCEPT ![p].pc = "update", ![p].selected = <<>>,
                                  ![p].source = "", ![p].gameType = NoType,
                                  ![p].batch = Cardinality(Batches) + 1]
            /\ response' = NoResponse
    /\ UNCHANGED <<games, guesses, pool, gs, released, calc, ls, cr>>

\* an update of currentRound that leaves leaderboardRevealed as it is
ReleaseUpdateKeepingLeaderboard(p) ==
    /\ rel[p].pc = "update"
    /\ games' = [games EXCEPT
                   ![rel[p].gameId].currentRound = rel[p].currentRound + 1]
    /\ released' = released \cup
                     { [batch |-> rel[p].batch, gameId |-> rel[p].gameId,
                        round |-> rel[p].currentRound + 1] }
    /\ response' = ReleaseResponse("ok", rel[p].n,
                                   rel[p].currentRound + 1)
    /\ rel' = [rel EXCEPT ![p] = IdleRelease]
    /\ UNCHANGED <<gameRounds, guesses, pool, gs, calc, ls, cr>>

\* lines 188-202
ReleaseUpdate(p) ==
    /\ rel[p].pc = "update"
    /\ games' = [games EXCEPT
                   ![rel[p].gameId].currentRound = rel[p].currentRound + 1,
                   ![rel[p].gameId].leaderboardRevealed = FALSE]
    /\ released' = released \cup
                     { [batch |-> rel[p].batch, gameId |-> rel[p].gameId,
                        round |-> rel[p].currentRound + 1] }
    /\ response' = ReleaseResponse("ok", rel[p].n,
                                   rel[p].currentRound + 1)
    /\ rel' = [rel EXCEPT ![p] = IdleRelease]
    /\ UNCHANGED <<gameRounds, guesses, pool, gs, calc, ls, cr>>

\* lines 203-209: a storage call of the handler throws; the handler answers
\* 500 and undoes nothing
ReleaseFail(p) ==
    /\ rel[p].pc \in {"readUsed", "readPool", "insert", "update"}
    /\ response' = ReleaseResponse("error", 0, 0)
    /\ rel' = [rel EXCEPT ![p] = IdleRelease]
    /\ UNCHANGED <<games, gameRounds, guesses, pool, gs, released, calc, ls, cr>>

----------------------------------------------------------------------------
(* submit-guess: POST /api/guesses *)

GuessResponse(result, gameRoundId) ==
    [NoResponse EXCEPT !.kind = "guess", !.result = result,
                       !.gameRoundId = gameRoundId]

\* lines 359-366: the answer to an accepted guess
GuessAccepted(gameRoundId, distanceKm, score, gameType) ==
    [GuessResponse("ok", gameRoundId) EXCEPT !.distanceKm = distanceKm,
                                             !.score = score,
                                             !.gameType = gameType]

RoundById(id) == CHOOSE r \in gameRounds : r.id = id

\* an authorization that lets every signed-in user guess
AnyoneMayGuess(game, user) == user \in Users

\* lines 234-259
MayGuess(game, user) ==
    IF game.mode = "group"
    THEN Membership(game.groupId, user) # {}
    ELSE game.userId = user

\* a comparison that admits the round after the current one
NotReleasedBeyondNext(roundNumber, currentRound) == roundNumber > currentRound + 1

\* line 227
NotReleased(roundNumber, currentRound) == roundNumber > currentRound

\* lines 191-259: read the round joined with its game, check release and
\* authorization
GuessBegin(q, user, round, input) ==
    /\ FirstFree(gs, q)
    /\ round \in gameRounds
    /\ LET game == games[round.gameId]
       IN  IF NotReleased(round.roundNumber, game.currentRound)
           THEN /\ response' = GuessResponse("notReleased", round.id)
                /\ UNCHANGED gs
           ELSE IF ~MayGuess(game, user)
           THEN /\ response' = GuessResponse("forbidden", round.id)
                /\ UNCHANGED gs
           ELSE /\ Started < MaxRequests
                /\ gs' = [gs EXCEPT ![q] =
                            [IdleGuess EXCEPT
                               !.pc = "checkExisting",
                               !.user = user,
                               !.gameRoundId = round.id,
                               !.timeout = input.timeout,
                               !.latitude = input.latitude,
                               !.longitude = input.longitude]]
                /\ response' = NoResponse
    /\ UNCHANGED <<games, gameRounds, guesses, pool, rel, released, calc, ls, cr>>

\* a lookup by round alone
GuessOfAnyUser(gameRoundId, userId) ==
    { g \in guesses : g.gameRoundId = gameRoundId }

\* lines 261-271
ExistingGuess(gameRoundId, userId) ==
    { g \in guesses : g.gameRoundId = gameRoundId /\ g.userId = userId }

\* the type of the game, whatever the round says
GameTypeOfGame(round, game) == getEffectiveGameType(game)

\* line 281: round.gameType || `country:${round.country}`
GuessEffectiveGameType(round, game) ==
    IF round.gameType # NoType THEN round.gameType
    ELSE getGameTypeFromCountry(game.country)

\* lines 286-311: the table the target is read from
LookupTable(round, isImage) ==
    IF round.locationSource = "worldLocations" THEN "worldLocations"
    ELSE IF round.locationSource = "imageLocations" \/ isImage
    THEN "imageLocations"
    ELSE "locations"

\* lines 286-311: the target's coordinates, Null when the row is missing
LookupLocation(round, isImage) ==
    LET found == { l \in pool : l.table = LookupTable(round, isImage)
                                  /\ l.id = round.locationId }
    IN  IF found = {} THEN Null
        ELSE Some([latitude |-> (CHOOSE l \in found : TRUE).latitude,
                   longitude |-> (CHOOSE l \in found : TRUE).longitude])

\* lines 261-318: the duplicate check, then the lookup of the target
GuessCheckExisting(q) ==
    /\ gs[q].pc = "checkExisting"
    /\ LET round == RoundById(gs[q].gameRoundId)
           effectiveGameType == GuessEffectiveGameType(round, games[round.gameId])
           location == LookupLocation(round, isImageGameType(effectiveGameType))
       IN  IF ExistingGuess(gs[q].gameRoundId, gs[q].user) # {}
           THEN /\ response' = GuessResponse("alreadyGuessed", gs[q].gameRoundId)
                /\ gs' = [gs EXCEPT ![q] = IdleGuess]
           ELSE IF location = Null
           THEN /\ response' = GuessResponse("locationNotFound", gs[q].gameRoundId)
                /\ gs' = [gs EXCEPT ![q] = IdleGuess]
           ELSE /\ gs' = [gs EXCEPT ![q].pc = "insert", ![q].location = location]
                /\ response' = NoResponse
    /\ UNCHANGED <<games, gameRounds, guesses, pool, rel, released, calc, ls, cr>>

\* a distance that ignores the timeout flag
DistanceIgnoringTimeout(timeout, isImage, latitude, longitude, location, gameType) ==
    IF isImage
    THEN calculatePixelDistance(longitude, latitude,
                                location.longitude, location.latitude)
    ELSE calculateDistance(latitude, longitude,
                           location.latitude, location.longitude)

\* lines 320-342: the penalty of the type on a timeout, else the pixel
\* distance on an image map and the haversine distance on any other map
GuessDistance(timeout, isImage, latitude, longitude, location, gameType) ==
    IF timeout
    THEN getGameTypeConfig(gameType).timeoutPenalty
    ELSE IF isImage
    THEN calculatePixelDistance(longitude, latitude,
                                location.longitude, location.latitude)
    ELSE calculateDistance(latitude, longitude,
                           location.latitude, location.longitude)

\* an insert that replaces the guess the user already has for the round
GuessUpsert(q) ==
    /\ gs[q].pc = "insert"
    /\ LET round == RoundById(gs[q].gameRoundId)
           effectiveGameType == GuessEffectiveGameType(round, games[round.gameId])
           distanceKm == GuessDistance(gs[q].timeout,
                                       isImageGameType(effectiveGameType),
                                       gs[q].latitude, gs[q].longitude,
                                       gs[q].location[1], effectiveGameType)
       IN  /\ guesses' = (guesses \ ExistingGuess(gs[q].gameRoundId, gs[q].user)) \cup
                 { [id |-> Cardinality(guesses) + 1,
                    gameRoundId |-> gs[q].gameRoundId,
                    userId |-> gs[q].user,
                    latitude |-> IF gs[q].timeout THEN Null
                                 ELSE Some(gs[q].latitude),
                    longitude |-> IF gs[q].timeout THEN Null
                                  ELSE Some(gs[q].longitude),
                    distanceKm |-> distanceKm] }
           /\ response' = GuessAccepted(gs[q].gameRoundId, distanceKm,
                                        calculateScore(distanceKm, effectiveGameType),
                                        effectiveGameType)
    /\ gs' = [gs EXCEPT ![q] = IdleGuess]
    /\ UNCHANGED <<games, gameRounds, pool, rel, released, calc, ls, cr>>

\* lines 344-367; the id stands for nanoid()
GuessInsert(q) ==
    /\ gs[q].pc = "insert"
    /\ LET round == RoundById(gs[q].gameRoundId)
           effectiveGameType == GuessEffectiveGameType(round, games[round.gameId])
           distanceKm == GuessDistance(gs[q].timeout,
                                       isImageGameType(effectiveGameType),
                                       gs[q].latitude, gs[q].longitude,
                                       gs[q].location[1], effectiveGameType)
       IN  /\ guesses' = guesses \cup
                 { [id |-> Cardinality(guesses) + 1,
                    gameRoundId |-> gs[q].gameRoundId,
                    userId |-> gs[q].user,
                    latitude |-> IF gs[q].timeout THEN Null
                                 ELSE Some(gs[q].latitude),
                    longitude |-> IF gs[q].timeout THEN Null
                                  ELSE Some(gs[q].longitude),
                    distanceKm |-> distanceKm] }
           /\ response' = GuessAccepted(gs[q].gameRoundId, distanceKm,
                                        calculateScore(distanceKm, effectiveGameType),
                                        effectiveGameType)
    /\ gs' = [gs EXCEPT ![q] = IdleGuess]
    /\ UNCHANGED <<games, gameRounds, pool, rel, released, calc, ls, cr>>

----------------------------------------------------------------------------
(* list guesses: GET /api/guesses *)

\* line 64: game.leaderboardRevealed || game.status === "completed"
IsRevealed(game) == game.leaderboardRevealed \/ game.status = "completed"

\* line 123: guess.gameType || `country:${guess.country || 'switzerland'}`,
\* with the gameType and the country of the gameRounds row
ListEffectiveGameType(round) ==
    IF round.gameType # NoType THEN round.gameType
    ELSE getGameTypeFromCountry(IF round.country # "" THEN round.country
                                ELSE "switzerland")

\* lines 105-171: the guesses of targetUserId in the game, each with the
\* score and the game type of the listing
ListedGuesses(gameId, targetUserId) ==
    { [id |-> g.id, gameRoundId |-> g.gameRoundId, userId |-> g.userId,
       distanceKm |-> g.distanceKm,
       score |-> calculateScore(g.distanceKm,
                                ListEffectiveGameType(RoundById(g.gameRoundId))),
       gameType |-> ListEffectiveGameType(RoundById(g.gameRoundId))] :
        g \in { x \in guesses : /\ x.userId = targetUserId
                                 /\ RoundById(x.gameRoundId).gameId = gameId } }

\* lines 41-68: the game is read; another user's guesses need the revealed
\* leaderboard or the completed game
ListBegin(user, targetUserId, gameId) ==
    /\ ls.pc \in {"idle", "done"}
    /\ LET game == games[gameId]
           isOwnGuesses == targetUserId = user
           started == [IdleList EXCEPT !.user = user,
                                       !.targetUserId = targetUserId,
                                       !.gameId = gameId]
       IN  ls' = IF ~isOwnGuesses /\ ~IsRevealed(game)
                 THEN [started EXCEPT !.pc = "done", !.result = "notRevealed"]
                 ELSE IF ~isOwnGuesses /\ game.groupId # ""
                 THEN [started EXCEPT !.pc = "membership"]
                 ELSE [started EXCEPT !.pc = "query"]
    /\ UNCHANGED <<games, gameRounds, guesses, pool, rel, gs, response,
                   released, calc, cr>>

\* lines 71-88: the requester must be a member of the game's group
ListMembership ==
    /\ ls.pc = "membership"
    /\ ls' = IF Membership(games[ls.gameId].groupId, ls.user) = {}
             THEN [ls EXCEPT !.pc = "done", !.result = "notMember"]
             ELSE [ls EXCEPT !.pc = "query"]
    /\ UNCHANGED <<games, gameRounds, guesses, pool, rel, gs, response,
                   released, calc, cr>>

\* lines 91-179: the guesses are read and returned
ListQuery ==
    /\ ls.pc = "query"
    /\ ls' = [ls EXCEPT !.pc = "done", !.result = "ok",
                        !.listed = ListedGuesses(ls.gameId, ls.targetUserId)]
    /\ UNCHANGED <<games, gameRounds, guesses, pool, rel, gs, response,
                   released, calc, cr>>

----------------------------------------------------------------------------
(* create game: POST /api/games *)

CreateResponse(result) ==
    [NoResponse EXCEPT !.kind = "create", !.result = result]

\* the locationsPerRound values a creation request carries (0: none given)
CreateLocationsPerRound == {0, 1, 3}

\* lines 121-143: only an admin of the group creates games, and
\* locationsPerRound is required
CreateBegin(c, user, groupId, locationsPerRound) ==
    /\ cr[c].pc = "idle"
    /\ Cardinality(DOMAIN games)
         + Cardinality({ d \in CreateSlots : cr[d].pc # "idle" }) < MaxRequests
    /\ LET membership == Membership(groupId, user)
       IN  IF membership = {} \/ \A m \in membership : m.role # "admin"
           THEN /\ response' = CreateResponse("notAdmin")
                /\ UNCHANGED cr
           ELSE IF locationsPerRound < 1
           THEN /\ response' = CreateResponse("invalid")
                /\ UNCHANGED cr
           ELSE /\ response' = NoResponse
                /\ cr' = [cr EXCEPT ![c] =
                            [pc |-> "locations", user |-> user, groupId |-> groupId,
                             locationsPerRound |-> locationsPerRound]]
    /\ UNCHANGED <<games, gameRounds, guesses, pool, rel, gs, released, calc, ls>>

\* lines 146-155: all rows of the locations table are counted
CreateReadLocations(c) ==
    /\ cr[c].pc = "locations"
    /\ IF Cardinality({ l \in pool : l.table = "locations" }) < cr[c].locationsPerRound
       THEN /\ response' = CreateResponse("notEnough")
            /\ cr' = [cr EXCEPT ![c] = IdleCreate]
       ELSE /\ response' = NoResponse
            /\ cr' = [cr EXCEPT ![c].pc = "existing"]
    /\ UNCHANGED <<games, gameRounds, guesses, pool, rel, gs, released, calc, ls>>

\* lines 158-168: the active games of the group
ExistingActiveGame(groupId) ==
    { g \in DOMAIN games : games[g].groupId = groupId /\ games[g].status = "active" }

\* lines 158-175: a group with an active game gets no other
CreateCheckExisting(c) ==
    /\ cr[c].pc = "existing"
    /\ IF ExistingActiveGame(cr[c].groupId) # {}
       THEN /\ response' = CreateResponse("activeExists")
            /\ cr' = [cr EXCEPT ![c] = IdleCreate]
       ELSE /\ response' = NoResponse
            /\ cr' = [cr EXCEPT ![c].pc = "insert"]
    /\ UNCHANGED <<games, gameRounds, guesses, pool, rel, gs, released, calc, ls>>

\* lines 178-190: the row of the new game; the id stands for nanoid()
CreateInsert(c) ==
    /\ cr[c].pc = "insert"
    /\ games' = games @@
                  (<<"n", Cardinality(DOMAIN games) + 1>> :>
                     [GroupGame EXCEPT !.groupId = cr[c].groupId,
                                       !.locationsPerRound = cr[c].locationsPerRound])
    /\ response' = CreateResponse("ok")
    /\ cr' = [cr EXCEPT ![c] = IdleCreate]
    /\ UNCHANGED <<gameRounds, guesses, pool, rel, gs, released, calc, ls>>

----------------------------------------------------------------------------
(* image locations: POST /api/image-locations *)

\* the x and y an added location is created with
AddedPixel == [x |-> 54, y |-> 47]

AddedLocations == pool \ InitialPool

\* lines 40-74: the super admin adds a location to an image map; the id
\* stands for nanoid()
AddImageLocation(imageMapId, x, y) ==
    /\ Cardinality(AddedLocations) < MaxAddedLocations
    /\ pool' = pool \cup
                 { [id |-> <<"a", Cardinality(AddedLocations) + 1>>,
                    table |-> "imageLocations", key |-> imageMapId,
                    latitude |-> y, longitude |-> x] }
    /\ response' = NoResponse
    /\ UNCHANGED <<games, gameRounds, guesses, rel, gs, released, calc, ls, cr>>

----------------------------------------------------------------------------
(* game status: GET /api/games/status *)

\* lines 46-62: one row for each round number of the game, with the number
\* of its gameRounds rows and the number of the user's guesses joined to them
RoundStats(gameId, userId) ==
    LET rows == { r \in gameRounds : r.gameId = gameId }
    IN  { [roundNumber |-> n,
           totalLocations |->
               Cardinality({ r \in rows : r.roundNumber = n }),
           userGuesses |->
               Cardinality({ g \in guesses :
                               /\ g.userId = userId
                               /\ \E r \in rows : /\ r.roundNumber = n
                                                   /\ g.gameRoundId = r.id })]
          : n \in { r.roundNumber : r \in rows } }

\* lines 64-66
userCompletedRounds(gameId, userId) ==
    Cardinality({ r \in RoundStats(gameId, userId) :
                    r.totalLocations > 0 /\ r.userGuesses = r.totalLocations })

----------------------------------------------------------------------------
(* hint circle: generateHintCircleCenter of src/lib/auth.ts *)
(*                                                                         *)
(* Latitudes and longitudes are thousandths of a degree, distances whole   *)
(* metres, bearings whole degrees.  Math.random() is one of the values     *)
(* k / RandSteps, 0 <= k < RandSteps.                                      *)

KM_PER_DEGREE_LAT == 111

KM_PER_DEGREE_LNG == 75

HINT_CIRCLE_RADIUS_KM == 60000

\* 1000 * cos of a whole number of degrees, 0..90
CosTable ==
    << 1000, 1000, 999, 999, 998, 996, 995, 993, 990, 988, 985, 982, 978,
       974, 970, 966, 961, 956, 951, 946, 940, 934, 927, 921, 914, 906,
       899, 891, 883, 875, 866, 857, 848, 839, 829, 819, 809, 799, 788,
       777, 766, 755, 743, 731, 719, 707, 695, 682, 669, 656, 643, 629,
       616, 602, 588, 574, 559, 545, 530, 515, 500, 485, 469, 454, 438,
       423, 407, 391, 375, 358, 342, 326, 309, 292, 276, 259, 242, 225,
       208, 191, 174, 156, 139, 122, 105, 87, 70, 52, 35, 17, 0 >>

\* 1000 * Math.cos of an angle of whole degrees
Cos1000(degrees) ==
    LET a == degrees % 360
    IN  IF a <= 90 THEN CosTable[a + 1]
        ELSE IF a <= 180 THEN 0 - CosTable[180 - a + 1]
        ELSE IF a <= 270 THEN 0 - CosTable[a - 180 + 1]
        ELSE CosTable[360 - a + 1]

\* 1000 * Math.sin of an angle of whole degrees
Sin1000(degrees) == Cos1000(degrees - 90)

\* The point distanceKm from (lat, lng) along the bearing, to first order in
\* the distance: 111.2 km for a degree of latitude, 111.2 km * cos(lat) for
\* a degree of longitude.  The great-circle distance of the result from
\* (lat, lng) is |distanceKm|, whatever the bearing.
calculateDestination(lat, lng, distanceKm, bearingDegrees) ==
    LET hm     == distanceKm \div 100
        perLng == (1112 * Cos1000(lat \div 1000)) \div 1000
    IN  [lat |-> lat + (hm * Cos1000(bearingDegrees)) \div 1112,
         lng |-> lng + (hm * Sin1000(bearingDegrees)) \div perLng]

\* the bounds of the default country for every type
DefaultCountryBounds(gameType) == GAME_TYPES[DEFAULT_GAME_TYPE].bounds[1]

\* config.bounds, or the whole world where the registry has bounds: null
getBoundsForGameType(gameType) ==
    LET config == getGameTypeConfig(gameType)
    IN  IF config.bounds # Null
        THEN config.bounds[1]
        ELSE [southWest |-> [lat |-> -85000, lng |-> -180000],
              northEast |-> [lat |-> 85000, lng |-> 180000]]

\* southEdge >= sw.lat with southEdge = centerLat - radiusKm / 111 is
\* (centerLat - sw.lat) * 111 >= radiusKm, and so for the other edges
isCircleWithinBounds(centerLat, centerLng, radiusKm, gameType) ==
    LET bounds == getBoundsForGameType(gameType)
    IN  /\ (centerLat - bounds.southWest.lat) * KM_PER_DEGREE_LAT >= radiusKm
        /\ (bounds.northEast.lat - centerLat) * KM_PER_DEGREE_LAT >= radiusKm
        /\ (centerLng - bounds.southWest.lng) * KM_PER_DEGREE_LNG >= radiusKm
        /\ (bounds.northEast.lng - centerLng) * KM_PER_DEGREE_LNG >= radiusKm

\* the eight directions with the space towards the border, in the order of
\* the array literal
HintDirections(targetLat, targetLng, gameType) ==
    LET bounds      == getBoundsForGameType(gameType)
        distToNorth == (bounds.northEast.lat - targetLat) * KM_PER_DEGREE_LAT
        distToSouth == (targetLat - bounds.southWest.lat) * KM_PER_DEGREE_LAT
        distToEast  == (bounds.northEast.lng - targetLng) * KM_PER_DEGREE_LNG
        distToWest  == (targetLng - bounds.southWest.lng) * KM_PER_DEGREE_LNG
    IN  << [bearing |-> 0,   space |-> distToNorth],
           [bearing |-> 45,  space |-> Min(distToNorth, distToEast)],
           [bearing |-> 90,  space |-> distToEast],
           [bearing |-> 135, space |-> Min(distToSouth, distToEast)],
           [bearing |-> 180, space |-> distToSouth],
           [bearing |-> 225, space |-> Min(distToSouth, distToWest)],
           [bearing |-> 270, space |-> distToWest],
           [bearing |-> 315, space |-> Min(distToNorth, distToWest)] >>

\* the bearings in the order of the array, not sorted
UnsortedBearings(targetLat, targetLng, gameType) ==
    [ k \in 1..8 |-> HintDirections(targetLat, targetLng, gameType)[k].bearing ]

\* directions.sort((a, b) => b.space - a.space).map(d => d.bearing): the
\* sort is stable, so equal spaces keep the order of the array
getBestBearings(targetLat, targetLng, gameType) ==
    LET directions == HintDirections(targetLat, targetLng, gameType)
        Before(j, i) ==
            \/ directions[j].space > directions[i].space
            \/ directions[j].space = directions[i].space /\ j < i
        Rank(i) == 1 + Cardinality({ j \in 1..8 : Before(j, i) })
    IN  [ k \in 1..8 |-> directions[CHOOSE i \in 1..8 : Rank(i) = k].bearing ]

\* minBuffer = Math.max(5, radiusKm * 0.08)
HintMinBuffer(radiusKm) == Max(5000, (8 * radiusKm) \div 100)

\* baseBearing + (Math.random() * 60 - 30)
HintBearing(baseBearing, k) == baseBearing + ((60 * k) \div RandSteps - 30)

\* minDistance + Math.random() * (maxDistance - minDistance)
HintDistance(radiusKm, k) ==
    LET minDistance == HintMinBuffer(radiusKm)
        maxDistance == radiusKm - HintMinBuffer(radiusKm)
    IN  minDistance + (k * (maxDistance - minDistance)) \div RandSteps

\* world maps 3000 km, the others 60% of scoreScaleFactor
getHintCircleRadius(gameType) ==
    LET config == getGameTypeConfig(gameType)
    IN  IF config.type = "world"
        THEN 3000000
        ELSE (6 * config.scoreScaleFactor) \div 10

\* a call generateHintCircleCenter(targetLat, targetLng, radiusKm, gameType)
\* before the first candidate, the bearings sorted
HintCall(targetLat, targetLng, radiusKm, gameType) ==
    [op |-> "hint", pc |-> "try", targetLat |-> targetLat,
     targetLng |-> targetLng, radiusKm |-> radiusKm, gameType |-> gameType,
     bestBearings |-> getBestBearings(targetLat, targetLng, gameType),
     tried |-> 0, bearing |-> 0, distance |-> 0, center |-> Null]

\* the targets of the calls: inside Switzerland, 55 km and 11 km from its
\* northern border, far north on the world map, and a pixel of the image map
HintTargets ==
    { [lat |-> 46800, lng |-> 8200], [lat |-> 47300, lng |-> 8200],
      [lat |-> 47700, lng |-> 8200], [lat |-> 80000, lng |-> 0],
      [lat |-> 47000, lng |-> 8000] }

HintGameTypes == {CountrySwitzerland, CountrySlovenia, WorldCapitals, ImageGarten}

\* the calls: the radius of the game type, or the legacy constant the round
\* page passes
HintCalls ==
    { HintCall(t.lat, t.lng, radiusKm, gameType) :
        t \in HintTargets,
        gameType \in HintGameTypes,
        radiusKm \in { getHintCircleRadius(gameType) : gameType \in HintGameTypes }
                     \cup {HINT_CIRCLE_RADIUS_KM} }

\* one pass of the loop over bestBearings: the candidate is returned when
\* its circle is within the bounds; bearing, distance and center hold the
\* candidate of the last pass
HintTry(k1, k2) ==
    /\ calc.op = "hint"
    /\ calc.pc = "try"
    /\ LET bearing  == HintBearing(calc.bestBearings[calc.tried + 1], k1)
           distance == HintDistance(calc.radiusKm, k2)
           center   == calculateDestination(calc.targetLat, calc.targetLng,
                                            distance, bearing)
       IN  IF isCircleWithinBounds(center.lat, center.lng, calc.radiusKm,
                                   calc.gameType)
           THEN calc' = [calc EXCEPT !.pc = "done", !.bearing = bearing,
                                     !.distance = distance,
                                     !.center = Some(center)]
           ELSE calc' = [calc EXCEPT !.tried = @ + 1,
                                     !.pc = IF calc.tried + 1 = 8
                                            THEN "fallback" ELSE "try",
                                     !.bearing = bearing,
                                     !.distance = distance,
                                     !.center = Some(center)]
    /\ UNCHANGED <<games, gameRounds, guesses, pool, rel, gs, response, released, ls, cr>>

\* the fallback after the loop: the best direction, whatever the bounds
HintFallback(k1, k2) ==
    /\ calc.op = "hint"
    /\ calc.pc = "fallback"
    /\ LET bearing  == HintBearing(calc.bestBearings[1], k1)
           distance == HintDistance(calc.radiusKm, k2)
       IN  calc' = [calc EXCEPT
                      !.pc = "done", !.bearing = bearing, !.distance = distance,
                      !.center = Some(calculateDestination(
                                        calc.targetLat, calc.targetLng,
                                        distance, bearing))]
    /\ UNCHANGED <<games, gameRounds, guesses, pool, rel, gs, response, released, ls, cr>>

----------------------------------------------------------------------------
(* score: calculateScore on two distances of one game type *)

\* distances in metres, from 0 to beyond the timeout penalty of each type
ScoreDistances ==
    { 0, 1, 17, 35, 350, 5000, 36000, 60000, 100000, 400000, 3000000,
      5000000, 20000000 }

\* the registered types of each kind and an id the registry does not hold
ScoreGameTypes ==
    {CountrySwitzerland, CountrySlovenia, WorldCapitals, ImageGarten, NoType}

ScoreCall(gameType, d1, d2) ==
    [op |-> "score", gameType |-> gameType,
     d1 |-> d1, score1 |-> Null, d2 |-> d2, score2 |-> Null]

ScoreCalls ==
    { ScoreCall(gameType, d1, d2) :
        gameType \in ScoreGameTypes, d1 \in ScoreDistances, d2 \in ScoreDistances }

\* calculateScore(d1, gameType)
ScoreFirst ==
    /\ calc.op = "score"
    /\ calc.score1 = Null
    /\ calc' = [calc EXCEPT !.score1 = Some(calculateScore(calc.d1, calc.gameType))]
    /\ UNCHANGED <<games, gameRounds, guesses, pool, rel, gs, response, released, ls, cr>>

\* calculateScore(d2, gameType)
ScoreSecond ==
    /\ calc.op = "score"
    /\ calc.score2 = Null
    /\ calc' = [calc EXCEPT !.score2 = Some(calculateScore(calc.d2, calc.gameType))]
    /\ UNCHANGED <<games, gameRounds, guesses, pool, rel, gs, response, released, ls, cr>>

----------------------------------------------------------------------------
(* pixel distance: calculatePixelDistance between two points, both ways *)

\* pixel coordinates: 23 pixels are 2.5 m, 92 pixels are 10 m
PixelCoordinates == {0, 5, 23, 92}

PixelCall(x1, y1, x2, y2) ==
    [op |-> "pixel", x1 |-> x1, y1 |-> y1, x2 |-> x2, y2 |-> y2,
     forward |-> Null, backward |-> Null]

PixelCalls ==
    { PixelCall(x1, y1, x2, y2) :
        x1 \in PixelCoordinates, y1 \in PixelCoordinates,
        x2 \in PixelCoordinates, y2 \in PixelCoordinates }

\* calculatePixelDistance(x1, y1, x2, y2)
PixelForward ==
    /\ calc.op = "pixel"
    /\ calc.forward = Null
    /\ calc' = [calc EXCEPT !.forward =
                   Some(calculatePixelDistance(calc.x1, calc.y1, calc.x2, calc.y2))]
    /\ UNCHANGED <<games, gameRounds, guesses, pool, rel, gs, response, released, ls, cr>>

\* calculatePixelDistance(x2, y2, x1, y1)
PixelBackward ==
    /\ calc.op = "pixel"
    /\ calc.backward = Null
    /\ calc' = [calc EXCEPT !.backward =
                   Some(calculatePixelDistance(calc.x2, calc.y2, calc.x1, calc.y1))]
    /\ UNCHANGED <<games, gameRounds, guesses, pool, rel, gs, response, released, ls, cr>>

----------------------------------------------------------------------------
(* The other writers of the games table *)

\* POST /api/games/complete: the admin ends the active game
CompleteGame(gameId) ==
    /\ games[gameId].status = "active"
    /\ games' = [games EXCEPT ![gameId].status = "completed"]
    /\ UNCHANGED <<gameRounds, guesses, pool, rel, gs, released, calc, ls, cr>>
    /\ response' = NoResponse

\* POST /api/leaderboard/reveal: the admin shows the standings
RevealLeaderboard(gameId) ==
    /\ games[gameId].status = "active"
    /\ ~games[gameId].leaderboardRevealed
    /\ games' = [games EXCEPT ![gameId].leaderboardRevealed = TRUE]
    /\ UNCHANGED <<gameRounds, guesses, pool, rel, gs, released, calc, ls, cr>>
    /\ response' = NoResponse

----------------------------------------------------------------------------
(* Specifications *)

BeginRelease(gameTypes, counts) ==
    \E p \in RelSlots, user \in Users, gameId \in GameIds,
       t \in gameTypes, n \in counts :
        ReleaseBegin(p, user, gameId, t, n)

BeginGuess(inputs) ==
    \E q \in GuessSlots, user \in Users, round \in gameRounds,
       input \in inputs :
        GuessBegin(q, user, round, input)

StepRelease ==
    \E p \in RelSlots :
        ReleaseReadUsed(p) \/ ReleaseReadPool(p) \/ ReleaseInsert(p) \/ ReleaseUpdate(p)

FailRelease == \E p \in RelSlots : ReleaseFail(p)

StepGuess == \E q \in GuessSlots : GuessCheckExisting(q) \/ GuessInsert(q)

Complete == \E gameId \in GameIds : CompleteGame(gameId)

Reveal == \E gameId \in GameIds : RevealLeaderboard(gameId)

\* Racing handlers: release and guess requests interleave at their awaits,
\* and a storage call of a release may fail.
Next ==
    \/ BeginRelease(RacingGameTypes, RacingLocationsPerRound)
    \/ BeginGuess(RacingGuessInputs)
    \/ StepRelease
    \/ FailRelease
    \/ StepGuess

Spec == Init /\ [][Next]_vars

\* no handler is between its first and its last step
Quiescent ==
    /\ \A p \in RelSlots : rel[p].pc = "idle"
    /\ \A q \in GuessSlots : gs[q].pc = "idle"

\* Requests handled one after the other, every storage call succeeding; the
\* admin may end the game and reveal the leaderboard between two requests.
NextSeq ==
    \/ Quiescent /\ BeginRelease(RequestedGameTypes, RequestedLocationsPerRound)
    \/ Quiescent /\ BeginGuess(RacingGuessInputs)
    \/ StepRelease
    \/ StepGuess
    \/ Quiescent /\ Complete
    \/ Quiescent /\ Reveal

SpecSeq == Init /\ [][NextSeq]_vars

\* Requests handled one after the other, the guess requests with and without
\* the timeout flag and with different coordinates.
NextGuess ==
    \/ Quiescent /\ BeginRelease(RequestedGameTypes, RacingLocationsPerRound)
    \/ Quiescent /\ BeginGuess(GuessInputs)
    \/ StepRelease
    \/ StepGuess

SpecGuess == Init /\ [][NextGuess]_vars

AddLocation ==
    \E imageMapId \in {"garten"} : AddImageLocation(imageMapId, AddedPixel.x, AddedPixel.y)

\* Releases without overrides, one after the other, on a game created with
\* any locationsPerRound; when a release was rejected for insufficient
\* locations the super admin adds a location.
NextPool ==
    \/ Quiescent /\ BeginRelease(RacingGameTypes, RacingLocationsPerRound)
    \/ StepRelease
    \/ response.result = "insufficient" /\ AddLocation

SpecPool == InitPool /\ [][NextPool]_vars

\* the hint circle of one call of generateHintCircleCenter
InitHint ==
    /\ games = [g \in GameIds |-> GroupGame]
    /\ gameRounds = {}
    /\ guesses = {}
    /\ pool = InitialPool
    /\ rel = [p \in RelSlots |-> IdleRelease]
    /\ gs = [q \in GuessSlots |-> IdleGuess]
    /\ response = NoResponse
    /\ released = {}
    /\ calc \in HintCalls
    /\ ls = IdleList
    /\ cr = [c \in CreateSlots |-> IdleCreate]

TryCandidate == \E k1, k2 \in 0..(RandSteps - 1) : HintTry(k1, k2)

Fallback == \E k1, k2 \in 0..(RandSteps - 1) : HintFallback(k1, k2)

NextHint ==
    \/ TryCandidate
    \/ Fallback

SpecHint == InitHint /\ [][NextHint]_vars

\* the function runs to its return: no pass of the loop waits for anything
SpecHintFair == SpecHint /\ WF_vars(NextHint)


\* two calls of calculateScore for one game type
InitScore ==
    /\ games = [g \in GameIds |-> GroupGame]
    /\ gameRounds = {}
    /\ guesses = {}
    /\ pool = InitialPool
    /\ rel = [p \in RelSlots |-> IdleRelease]
    /\ gs = [q \in GuessSlots |-> IdleGuess]
    /\ response = NoResponse
    /\ released = {}
    /\ calc \in ScoreCalls
    /\ ls = IdleList
    /\ cr = [c \in CreateSlots |-> IdleCreate]

NextScore ==
    \/ ScoreFirst
    \/ ScoreSecond

SpecScore == InitScore /\ [][NextScore]_vars

\* calculatePixelDistance on two points, in both orders
InitPixel ==
    /\ games = [g \in GameIds |-> GroupGame]
    /\ gameRounds = {}
    /\ guesses = {}
    /\ pool = InitialPool
    /\ rel = [p \in RelSlots |-> IdleRelease]
    /\ gs = [q \in GuessSlots |-> IdleGuess]
    /\ response = NoResponse
    /\ released = {}
    /\ calc \in PixelCalls
    /\ ls = IdleList
    /\ cr = [c \in CreateSlots |-> IdleCreate]

NextPixel ==
    \/ PixelForward
    \/ PixelBackward

SpecPixel == InitPixel /\ [][NextPixel]_vars

\* the requests to list the guesses of u2, a member of the group and the
\* owner of the solo game
BeginList ==
    \E user \in Users, gameId \in GameIds : ListBegin(user, "u2", gameId)

StepList == ListMembership \/ ListQuery

\* Release and guess requests handled one after the other, the admin ending
\* the game or revealing the leaderboard between them; a request to list
\* guesses runs beside them, interleaved at its awaits.
NextList ==
    \/ Quiescent /\ BeginRelease(RacingGameTypes, RacingLocationsPerRound)
    \/ Quiescent /\ BeginGuess(RacingGuessInputs)
    \/ StepRelease
    \/ StepGuess
    \/ Quiescent /\ Complete
    \/ Quiescent /\ Reveal
    \/ BeginList
    \/ StepList

SpecList == Init /\ [][NextList]_vars

\* no game exists yet
InitCreate ==
    /\ games = [g \in {} |-> GroupGame]
    /\ gameRounds = {}
    /\ guesses = {}
    /\ pool = InitialPool
    /\ rel = [p \in RelSlots |-> IdleRelease]
    /\ gs = [q \in GuessSlots |-> IdleGuess]
    /\ response = NoResponse
    /\ released = {}
    /\ calc = NoCalc
    /\ ls = IdleList
    /\ cr = [c \in CreateSlots |-> IdleCreate]

BeginCreate ==
    \E c \in CreateSlots, user \in Users, n \in CreateLocationsPerRound :
        CreateBegin(c, user, GroupId, n)

StepCreate ==
    \E c \in CreateSlots :
        CreateReadLocations(c) \/ CreateCheckExisting(c) \/ CreateInsert(c)

CompleteCreated == \E gameId \in DOMAIN games : CompleteGame(gameId)

\* Creation requests for the one group, interleaved at their awaits; the
\* admin may end a game.
NextCreate ==
    \/ BeginCreate
    \/ StepCreate
    \/ CompleteCreated

SpecCreate == InitCreate /\ [][NextCreate]_vars

\* the country keys of COUNTRIES
CountryKeys == {"switzerland", "slovenia"}

\* a round from before the gameType column: its gameType is null; its
\* country column may differ from the country of the game
LegacyRound(gameId, country) ==
    [id |-> <<0, 1>>, gameId |-> gameId, roundNumber |-> 1, locationIndex |-> 1,
     locationId |-> <<"l", 1>>, locationSource |-> "locations",
     country |-> country, gameType |-> NoType]

\* a game of the group with its first round released before the gameType
\* column existed
InitLegacy ==
    /\ games \in { [g \in GameIds |-> [GroupGame EXCEPT !.country = c,
                                                        !.currentRound = 1]] :
                      c \in CountryKeys }
    /\ gameRounds \in { {LegacyRound("g1", c)} : c \in CountryKeys }
    /\ guesses = {}
    /\ pool = InitialPool
    /\ rel = [p \in RelSlots |-> IdleRelease]
    /\ gs = [q \in GuessSlots |-> IdleGuess]
    /\ response = NoResponse
    /\ released = {}
    /\ calc = NoCalc
    /\ ls = IdleList
    /\ cr = [c \in CreateSlots |-> IdleCreate]

\* u2 lists their own guesses
BeginOwnList == \E gameId \in GameIds : ListBegin("u2", "u2", gameId)

\* Requests handled one after the other on a game with a legacy round:
\* releases with and without a game type, guesses, and listings of u2's
\* guesses.
NextLegacy ==
    \/ Quiescent /\ BeginRelease(RequestedGameTypes, RacingLocationsPerRound)
    \/ Quiescent /\ BeginGuess(GuessInputs)
    \/ StepRelease
    \/ StepGuess
    \/ Quiescent /\ BeginOwnList
    \/ ListQuery

SpecLegacy == InitLegacy /\ [][NextLegacy]_vars

----------------------------------------------------------------------------
(* Properties *)

RowsOf(gameId) == { r \in gameRounds : r.gameId = gameId }

RowsOfBatch(rows, batch) == { r \in rows : r.id[1] = batch }

\* the rows of the type's table no gameRounds row of the game refers to
Unused(gameId, gameType) ==
    { l \in PoolOf(gameType) : \A r \in RowsOf(gameId) : r.locationId # l.id }

GuessesOf(rows, gameRoundId, userId) ==
    { g \in rows : g.gameRoundId = gameRoundId /\ g.userId = userId }

\* C1: with requests handled one after the other, no locationId appears in
\* two gameRounds rows of one game, whatever round or game type the rows have.
C1_NoLocationTwice ==
    \A a, b \in gameRounds :
        (a.gameId = b.gameId /\ a.locationId = b.locationId) => a.id = b.id

\* three releases of one game, one of them of another game type
C1_Witness ==
    \E a, b, c \in gameRounds :
        /\ a.roundNumber = 1 /\ b.roundNumber = 2 /\ c.roundNumber = 3
        /\ a.gameId = b.gameId /\ b.gameId = c.gameId
        /\ a.gameType # c.gameType

\* C2: no round number of a game is released by two successful
\* release-round requests.
C2_OneReleasePerRound ==
    \A a, b \in released :
        (a.gameId = b.gameId /\ a.round = b.round) => a.batch = b.batch

\* C3: at most one guesses row exists per (gameRoundId, userId).
C3_OneGuessPerRoundAndUser ==
    \A a, b \in guesses :
        (a.gameRoundId = b.gameRoundId /\ a.userId = b.userId) => a.id = b.id

\* C4: every write of currentRound by a release stores a value strictly
\* greater than the stored one.
C4_CurrentRoundGrows ==
    [][ \A p \in RelSlots :
          (rel[p].pc = "update" /\ rel'[p].pc = "idle" /\ response'.result = "ok")
          => games'[rel[p].gameId].currentRound > games[rel[p].gameId].currentRound
      ]_vars

\* C5: when fewer locations of the effective type are unused in the game than
\* the effective locationsPerRound, the release is answered with the
\* insufficient-locations error and the games, gameRounds and guesses tables
\* stay as they are.
C5_InsufficientRejected ==
    [][ \A p \in RelSlots :
          ( /\ rel[p].pc = "readPool"
            /\ rel'[p].pc # "readPool"
            /\ Cardinality(Unused(rel[p].gameId, rel[p].gameType)) < rel[p].n )
          => /\ response' = ReleaseResponse("insufficient", 0, 0)
             /\ games' = games
             /\ gameRounds' = gameRounds
             /\ guesses' = guesses
      ]_vars

\* a release was rejected for insufficient locations after rounds of the
\* game had been released
C5_Witness ==
    /\ response = ReleaseResponse("insufficient", 0, 0)
    /\ \E g \in GameIds : games[g].currentRound > 0 /\ RowsOf(g) # {}

\* C6: a release-round request that fails leaves none of its rows in the
\* gameRounds table.
C6_FailedReleaseLeavesNothing ==
    [][ \A p \in RelSlots :
          ( /\ rel[p].pc # "idle"
            /\ rel'[p].pc = "idle"
            /\ response'.kind = "release"
            /\ response'.result = "error" )
          => RowsOfBatch(gameRounds', rel[p].batch) = {}
      ]_vars

\* C7: a guess request for a round whose roundNumber is greater than the
\* game's currentRound is answered round-not-released, whoever sends it: it is
\* neither taken up nor answered as forbidden, and the answer inserts no row.
C7_UnreleasedRoundRejected ==
    [][ /\ \A r \in gameRounds :
             r.roundNumber > games[r.gameId].currentRound
             => /\ \A q \in GuessSlots :
                     ~(gs[q].pc = "idle" /\ gs'[q].pc # "idle"
                       /\ gs'[q].gameRoundId = r.id)
                /\ ~(response'.kind = "guess" /\ response'.result = "forbidden"
                     /\ response'.gameRoundId = r.id)
        /\ (response'.kind = "guess" /\ response'.result = "notReleased")
             => /\ guesses' = guesses
                /\ gs' = gs
                /\ LET r == RoundById(response'.gameRoundId)
                   IN  r.roundNumber > games[r.gameId].currentRound
      ]_vars

\* a guess for an inserted but not yet released round was rejected
C7_Witness ==
    /\ response.kind = "guess"
    /\ response.result = "notReleased"
    /\ guesses = {}

\* C8: a successful release on currentRound = c inserts exactly N rows, N the
\* effective locationsPerRound it also reports, all with roundNumber c + 1 and
\* locationIndex 1..N, and sets currentRound to c + 1.
C8_ReleaseCreatesNRows ==
    [][ \A p \in RelSlots :
          (rel[p].pc = "update" /\ rel'[p].pc = "idle" /\ response'.result = "ok")
          => LET new == RowsOfBatch(gameRounds', rel[p].batch)
                 c == games[rel[p].gameId].currentRound
             IN  /\ response'.n = rel[p].n
                 /\ Cardinality(new) = response'.n
                 /\ { r.locationIndex : r \in new } = 1..response'.n
                 /\ \A r \in new : r.roundNumber = c + 1
                 /\ games'[rel[p].gameId].currentRound = c + 1
      ]_vars

\* C9: once a game is completed, its status, its currentRound and its
\* gameRounds rows never change.
C9_CompletedIsTerminal ==
    [][ \A g \in GameIds :
          games[g].status = "completed"
          => /\ games'[g].status = "completed"
             /\ games'[g].currentRound = games[g].currentRound
             /\ { r \in gameRounds' : r.gameId = g } = RowsOf(g)
      ]_vars

\* C10: with requests handled one after the other, a guess request inserts one
\* row when the user has no guess for the round, and is answered
\* already-guessed, changing no row, when the user has one: one row per
\* (gameRoundId, userId) is kept.
C10_SecondGuessRejected ==
    [][ \A q \in GuessSlots :
          /\ (gs[q].pc = "checkExisting" /\ gs'[q].pc # "checkExisting")
             => IF GuessesOf(guesses, gs[q].gameRoundId, gs[q].user) # {}
                THEN /\ response' = GuessResponse("alreadyGuessed", gs[q].gameRoundId)
                     /\ gs'[q].pc = "idle"
                     /\ guesses' = guesses
                     /\ Cardinality(GuessesOf(guesses', gs[q].gameRoundId,
                                              gs[q].user)) = 1
                ELSE gs'[q].pc = "insert"
          /\ (gs[q].pc = "insert" /\ gs'[q].pc # "insert")
             => /\ response'.kind = "guess"
                /\ response'.result = "ok"
                /\ response'.gameRoundId = gs[q].gameRoundId
                /\ Cardinality(GuessesOf(guesses', gs[q].gameRoundId,
                                         gs[q].user)) = 1
      ]_vars

\* the second of two guess requests of one user for one round was rejected
C10_Witness ==
    /\ response.kind = "guess"
    /\ response.result = "alreadyGuessed"
    /\ \E g \in guesses : g.gameRoundId = response.gameRoundId
    /\ Cardinality(guesses) = 1

\* C11: a guesses row is inserted only for a user authorized for the round's
\* game (a member of the group of a group game, the owner of any other game);
\* the request of anyone else is not taken up, and a request answered as
\* forbidden inserts no row.
C11_GuessNeedsAuthorization ==
    [][ LET authorized(user, gameRoundId) ==
              LET game == games[RoundById(gameRoundId).gameId]
              IN  IF game.mode = "group"
                  THEN \E m \in groupMembers :
                          m.groupId = game.groupId /\ m.userId = user
                  ELSE game.userId = user
        IN  /\ \A q \in GuessSlots :
                  (gs[q].pc = "idle" /\ gs'[q].pc # "idle")
                  => authorized(gs'[q].user, gs'[q].gameRoundId)
            /\ \A g \in guesses' \ guesses : authorized(g.userId, g.gameRoundId)
            /\ (response'.kind = "guess" /\ response'.result = "forbidden")
                  => (guesses' = guesses /\ gs' = gs)
      ]_vars

\* a guess request was answered as forbidden, and the guess of a plain member
\* of the group is stored
C11_Witness ==
    /\ response.kind = "guess"
    /\ response.result = "forbidden"
    /\ \E g \in guesses :
          /\ g.userId = "u2"
          /\ games[RoundById(g.gameRoundId).gameId].mode = "group"

\* C12: a release-round request of a caller who is not an admin of the group
\* of a group game, or not the owner of any other game, is answered as
\* forbidden and changes no table and starts no handler; the games and
\* gameRounds tables change only in steps of a handler that was taken up.
C12_ReleaseNeedsAuthorization ==
    [][ /\ \A p \in RelSlots, user \in Users, gameId \in GameIds,
              t \in RequestedGameTypes, n \in RequestedLocationsPerRound :
              ( /\ ReleaseBegin(p, user, gameId, t, n)
                /\ LET game == games[gameId]
                   IN  IF game.mode = "group"
                       THEN ~ \E m \in groupMembers :
                                 /\ m.groupId = game.groupId
                                 /\ m.userId = user
                                 /\ m.role = "admin"
                       ELSE game.userId # user )
              => /\ response' = ReleaseResponse("forbidden", 0, 0)
                 /\ games' = games
                 /\ gameRounds' = gameRounds
                 /\ rel' = rel
        /\ (games' # games \/ gameRounds' # gameRounds)
              => \E p \in RelSlots : rel[p].pc \in {"insert", "update"}
      ]_vars

\* a release request was answered as forbidden for a game with released
\* rounds
C12_Witness ==
    /\ response = ReleaseResponse("forbidden", 0, 0)
    /\ \E g \in GameIds : games[g].currentRound > 0

\* C13: every successful release leaves leaderboardRevealed false, whatever
\* it was before.
C13_ReleaseHidesLeaderboard ==
    [][ \A p \in RelSlots :
          (rel[p].pc = "update" /\ rel'[p].pc = "idle" /\ response'.result = "ok")
          => ~games'[rel[p].gameId].leaderboardRevealed
      ]_vars

\* a release that has inserted its rows is about to update a game whose
\* leaderboard is revealed
C13_Witness ==
    \E p \in RelSlots :
        /\ rel[p].pc = "update"
        /\ games[rel[p].gameId].leaderboardRevealed
        /\ games[rel[p].gameId].currentRound > 0

\* C14: a guess submitted with the timeout flag is stored with the timeout
\* penalty of the round's effective game type as its distance and with null
\* coordinates, whatever coordinates the request carried, and is answered
\* with that distance and the score of that distance.
C14_TimeoutStoresPenalty ==
    [][ \A q \in GuessSlots :
          (gs[q].pc = "insert" /\ gs'[q].pc = "idle" /\ gs[q].timeout)
          => LET round == RoundById(gs[q].gameRoundId)
                 type == IF round.gameType # NoType THEN round.gameType
                         ELSE [kind |-> "country",
                               key |-> games[round.gameId].country]
                 penalty == getGameTypeConfig(type).timeoutPenalty
             IN  /\ Cardinality(guesses' \ guesses) = 1
                 /\ \A g \in guesses' \ guesses :
                       /\ g.gameRoundId = gs[q].gameRoundId
                       /\ g.userId = gs[q].user
                       /\ g.distanceKm = penalty
                       /\ g.latitude = Null
                       /\ g.longitude = Null
                 /\ response'.result = "ok"
                 /\ response'.distanceKm = penalty
                 /\ response'.score = calculateScore(penalty, type)
      ]_vars

\* a timeout guess for a round of the world map, released in a game of
\* another type, was stored with null coordinates and the world penalty
C14_Witness ==
    /\ response.kind = "guess"
    /\ response.result = "ok"
    /\ response.gameType = WorldCapitals
    /\ response.distanceKm = GAME_TYPES[WorldCapitals].timeoutPenalty
    /\ response.score = 19
    /\ \E g \in guesses :
          /\ g.latitude = Null
          /\ g.longitude = Null
          /\ g.distanceKm = response.distanceKm

\* C15: the completed-round count reported for a user and a game is the
\* number of round numbers of the game all of whose gameRounds rows have a
\* guess of the user.
C15_CompletedRoundsCount ==
    \A gameId \in GameIds, user \in Users :
        userCompletedRounds(gameId, user)
          = Cardinality({ n \in { r.roundNumber : r \in RowsOf(gameId) } :
                            \A r \in RowsOf(gameId) :
                                r.roundNumber = n
                                => \E g \in guesses : /\ g.gameRoundId = r.id
                                                      /\ g.userId = user })

C17_RetryAfterRejection ==
    [][ /\ \A p \in RelSlots :
              /\ ( /\ rel[p].pc = "readPool"
                   /\ rel'[p].pc # "readPool"
                   /\ Cardinality(Unused(rel[p].gameId, rel[p].gameType)) >= rel[p].n )
                 => rel'[p].pc = "insert"
              /\ (rel[p].pc = "update" /\ rel'[p].pc # "update")
                 => /\ response'.result = "ok"
                    /\ games'[rel[p].gameId].currentRound
                         = games[rel[p].gameId].currentRound + 1
                    /\ gameRounds' = gameRounds
                    /\ \A r \in RowsOfBatch(gameRounds', rel[p].batch) :
                          r.roundNumber = games'[rel[p].gameId].currentRound
        /\ (response'.result = "insufficient" \/ pool' # pool)
              => (games' = games /\ gameRounds' = gameRounds)
      ]_vars

\* a release succeeded after an earlier one was rejected and a location was
\* added: the added location is in the new round, which follows the rounds
\* released before the rejection
C17_Witness ==
    /\ response.kind = "release"
    /\ response.result = "ok"
    /\ AddedLocations # {}
    /\ \E g \in GameIds, r \in gameRounds, a \in AddedLocations :
          /\ r.gameId = g
          /\ r.locationId = a.id
          /\ r.roundNumber = games[g].currentRound
          /\ games[g].currentRound = Cardinality(RowsOf(g)) \div games[g].locationsPerRound

\* the center a finished call of generateHintCircleCenter returned is
\* |distance| away from the target
HintDone == calc.op = "hint" /\ calc.pc = "done"

\* C18: the center generateHintCircleCenter returns lies at a distance d from
\* the target with minBuffer <= d <= radiusKm - minBuffer, minBuffer =
\* max(5, 0.08 * radiusKm), so that 0 < d < radiusKm, for every radius
\* getHintCircleRadius gives for a registered game type
C18_HintDistanceWithinBuffers ==
    (HintDone /\ \E gameType \in HintGameTypes :
                    calc.radiusKm = getHintCircleRadius(gameType))
    => /\ HintMinBuffer(calc.radiusKm) <= Abs(calc.distance)
       /\ Abs(calc.distance) <= calc.radiusKm - HintMinBuffer(calc.radiusKm)
       /\ 0 < Abs(calc.distance)
       /\ Abs(calc.distance) < calc.radiusKm

\* C18 on the radii of the country and world types only
C18_HoldsFromTenKm ==
    (HintDone /\ calc.radiusKm >= 10000)
    => /\ HintMinBuffer(calc.radiusKm) <= Abs(calc.distance)
       /\ Abs(calc.distance) <= calc.radiusKm - HintMinBuffer(calc.radiusKm)
       /\ 0 < Abs(calc.distance)
       /\ Abs(calc.distance) < calc.radiusKm

\* C19: for every game type calculateScore does not increase with the
\* distance, is 100 at distance 0 and is a whole number from 0 to 100
C19_ScoreMonotoneAndBounded ==
    calc.op = "score" =>
      /\ calc.score1 # Null =>
            /\ calc.score1[1] \in 0..100
            /\ calc.d1 = 0 => calc.score1[1] = 100
      /\ calc.score2 # Null => calc.score2[1] \in 0..100
      /\ (calc.score1 # Null /\ calc.score2 # Null /\ calc.d1 < calc.d2)
            => calc.score1[1] >= calc.score2[1]

\* both scores computed: 100 at distance 0, a lower score at the scale
\* factor of the world maps, and 0 far away
C19_Witness ==
    /\ calc.op = "score"
    /\ calc.gameType = WorldCapitals
    /\ calc.d1 = 0 /\ calc.score1 = Some(100)
    /\ calc.d2 = 3000000 /\ calc.score2 = Some(37)

\* C20: calculatePixelDistance is the Euclidean pixel distance times 10/92
\* metres, rounded to the nearest metre (m - 1/2 <= distance * 10/92 <
\* m + 1/2): 0 for two identical points, the same in both orders of the
\* points, and 10 m (0.010 km) for (0,0) and (92,0)
C20_PixelDistance ==
    calc.op = "pixel" =>
      LET d2 == (calc.x2 - calc.x1) * (calc.x2 - calc.x1)
                  + (calc.y2 - calc.y1) * (calc.y2 - calc.y1)
      IN  /\ calc.forward # Null =>
                LET m == calc.forward[1]
                IN  /\ m >= 0
                    /\ m > 0 => (23 * (2 * m - 1)) * (23 * (2 * m - 1)) <= 25 * d2
                    /\ 25 * d2 < (23 * (2 * m + 1)) * (23 * (2 * m + 1))
                    /\ (calc.x1 = calc.x2 /\ calc.y1 = calc.y2) => m = 0
                    /\ (calc.x1 = 0 /\ calc.y1 = 0 /\ calc.x2 = 92 /\ calc.y2 = 0)
                          => m = 10
          /\ (calc.forward # Null /\ calc.backward # Null)
                => calc.forward = calc.backward

\* the distance of (0,0) and (92,0) computed in both orders
C20_Witness ==
    /\ calc.op = "pixel"
    /\ calc.x1 = 0 /\ calc.y1 = 0 /\ calc.x2 = 92 /\ calc.y2 = 0
    /\ calc.forward = Some(10)
    /\ calc.backward = Some(10)

\* the step that answers a request to list another user's guesses
AnswersOthersGuesses ==
    /\ ls.pc = "query"
    /\ ls'.pc = "done"
    /\ ls'.result = "ok"
    /\ ls.user # ls.targetUserId

\* C21: a request to list another user's guesses of a game is answered only
\* if the game's leaderboard is revealed or the game is completed, and only
\* if the requester is a member of the game's group; so after a release on
\* an active game nobody reads another user's guesses until the leaderboard
\* is revealed again
C21_OthersGuessesNeedReveal ==
    [][AnswersOthersGuesses =>
          /\ IsRevealed(games[ls.gameId])
          /\ Membership(games[ls.gameId].groupId, ls.user) # {}]_vars

\* C22: a group has at most one active game in every reachable state, also
\* when two creation requests for it are handled concurrently, and a game
\* is created with status active and currentRound 0
C22_OneActiveGamePerGroup ==
    /\ Cardinality(ExistingActiveGame(GroupId)) <= 1
    /\ \A g \in DOMAIN games :
          games[g].currentRound = 0 /\ games[g].status \in {"active", "completed"}

\* C23: within one game and one round number the gameRounds rows have
\* pairwise distinct locationIndex values and pairwise distinct locationIds,
\* also when release requests for the game are handled concurrently
C23_RoundRowsDistinct ==
    \A a, b \in gameRounds :
        (a.gameId = b.gameId /\ a.roundNumber = b.roundNumber /\ a.id # b.id)
        => (a.locationIndex # b.locationIndex /\ a.locationId # b.locationId)

\* C24: for every round number r with 1 <= r <= currentRound of a game at
\* least one gameRounds row with roundNumber r exists, under any
\* interleaving of release requests
C24_ReleasedRoundsHaveRows ==
    \A g \in GameIds : \A r \in 1..games[g].currentRound :
        \E x \in gameRounds : x.gameId = g /\ x.roundNumber = r

\* a second round was released: both rounds have rows
C24_Witness ==
    \E g \in GameIds :
        /\ games[g].currentRound = 2
        /\ \E x, y \in gameRounds :
              /\ x.gameId = g /\ x.roundNumber = 1
              /\ y.gameId = g /\ y.roundNumber = 2

\* C25: the score and the game type a guess is answered with at submission
\* are the score and the game type it is listed with afterwards: both use
\* the round's gameType or, when that is unset, the same country fallback
C25_ListedScoreIsSubmittedScore ==
    [][\A g \in guesses' \ guesses :
         \A l \in ListedGuesses(RoundById(g.gameRoundId).gameId, g.userId)' :
            l.id = g.id => /\ l.gameType = response'.gameType
                           /\ l.score = response'.score]_vars

\* C25 for the rounds release-round creates, whose gameType is always set
C25_HoldsWithGameType ==
    [][\A g \in guesses' \ guesses :
         RoundById(g.gameRoundId).gameType # NoType =>
         \A l \in ListedGuesses(RoundById(g.gameRoundId).gameId, g.userId)' :
            l.id = g.id => /\ l.gameType = response'.gameType
                           /\ l.score = response'.score]_vars

\* C26: every gameRounds row has the locationSource of its gameType
\* (imageLocations for image types, worldLocations for world types,
\* locations otherwise) and a locationId of that table; a guess is measured
\* against the row of that table, with the pixel distance exactly when the
\* source is imageLocations
C26_SourceMatchesGameType ==
    /\ [](\A r \in gameRounds :
            /\ r.locationSource = "imageLocations" <=> r.gameType.kind = "image"
            /\ r.locationSource = "worldLocations" <=> r.gameType.kind = "world"
            /\ r.locationSource \in {"imageLocations", "worldLocations", "locations"}
            /\ \E l \in pool : l.table = r.locationSource /\ l.id = r.locationId)
    /\ [][\A g \in guesses' \ guesses :
            g.latitude # Null =>
              LET round == RoundById(g.gameRoundId)
                  loc == CHOOSE l \in pool : /\ l.table = round.locationSource
                                             /\ l.id = round.locationId
              IN  g.distanceKm =
                    IF round.locationSource = "imageLocations"
                    THEN calculatePixelDistance(g.longitude[1], g.latitude[1],
                                                loc.longitude, loc.latitude)
                    ELSE calculateDistance(g.latitude[1], g.longitude[1],
                                           loc.latitude, loc.longitude)]_vars

\* a guess on a round of the image map, measured in pixels: 92 pixels, 10 m
C26_Witness ==
    \E g \in guesses :
        /\ RoundById(g.gameRoundId).locationSource = "imageLocations"
        /\ RoundById(g.gameRoundId).gameType = ImageGarten
        /\ g.latitude # Null
        /\ g.distanceKm = 10

\* C27: a release leaves every gameRounds row and every guesses row it finds
\* as it is and changes no field of a game but currentRound and
\* leaderboardRevealed; a guess submission changes no games row, no
\* gameRounds row and no guesses row it finds
C27_ExistingRowsUnchanged ==
    [][/\ gameRounds \subseteq gameRounds'
       /\ guesses \subseteq guesses'
       /\ \A g \in GameIds :
             games'[g] = [games[g] EXCEPT
                            !.currentRound = games'[g].currentRound,
                            !.leaderboardRevealed = games'[g].leaderboardRevealed]
       /\ rel' # rel => guesses' = guesses
       /\ gs' # gs => (games' = games /\ gameRounds' = gameRounds)]_vars

\* the release of a second round has just been answered on a game that has
\* a guess on its first round
C27_Witness ==
    /\ response.kind = "release"
    /\ response.result = "ok"
    /\ response.round = 2
    /\ \E g \in guesses : RoundById(g.gameRoundId).roundNumber = 1
    /\ \E r \in gameRounds : r.roundNumber = 2

\* the circle around center lies between the latitudes -85 and 85 and the
\* longitudes -180 and 180, at 111 km and 75 km for a degree
InWorldRectangle(center, radiusKm) ==
    /\ (center.lat + 85000) * 111 >= radiusKm
    /\ (85000 - center.lat) * 111 >= radiusKm
    /\ (center.lng + 180000) * 75 >= radiusKm
    /\ (180000 - center.lng) * 75 >= radiusKm

BearingsOfRank(k, targetLat, targetLng, gameType) ==
    LET directions == HintDirections(targetLat, targetLng, gameType)
    IN  { directions[i].bearing : i \in
            { i \in 1..8 :
                /\ Cardinality({ j \in 1..8 :
                      directions[j].space > directions[i].space }) < k
                /\ Cardinality({ j \in 1..8 :
                      directions[j].space >= directions[i].space }) >= k } }

\* C29: generateHintCircleCenter tries the eight base bearings in the order
\* of descending space towards the bounds, each within 30 degrees, and
\* returns the first candidate whose circle fits the bounds; after eight
\* candidates that do not fit it returns a center on the best-ranked
\* bearing; every call returns a center
C29_BearingsTriedInOrder ==
    /\ [](calc.op = "hint" =>
            /\ calc.tried \in 0..8
            /\ calc.pc = "fallback" <=> (calc.tried = 8 /\ calc.center # Null
                                          /\ calc.pc # "done")
            /\ calc.pc = "done" => calc.center # Null)
    /\ <>(calc.op = "hint" /\ calc.pc = "done" /\ calc.center # Null)
    /\ [][(calc.op = "hint" /\ calc.pc = "try") =>
            /\ \E base \in BearingsOfRank(calc.tried + 1, calc.targetLat,
                                           calc.targetLng, calc.gameType) :
                  /\ calc'.bearing - base \in -30..30
                  /\ base \in {0, 45, 90, 135, 180, 225, 270, 315}
            /\ calc'.pc = "done" <=>
                  isCircleWithinBounds(calc'.center[1].lat, calc'.center[1].lng,
                                       calc.radiusKm, calc.gameType)
            /\ calc'.pc = "done" => calc'.tried = calc.tried
            /\ calc'.pc # "done" => calc'.tried = calc.tried + 1]_vars
    /\ [][(calc.op = "hint" /\ calc.pc = "fallback") =>
            /\ calc'.pc = "done"
            /\ \E base \in BearingsOfRank(1, calc.targetLat, calc.targetLng,
                                           calc.gameType) :
                  calc'.bearing - base \in -30..30]_vars

\* a center returned on the third bearing tried for a target 55 km south of
\* the Swiss border: the candidates to the east and to the west did not fit
C29_Witness ==
    /\ calc.op = "hint"
    /\ calc.pc = "done"
    /\ calc.tried = 2
    /\ calc.gameType = CountrySwitzerland
    /\ calc.targetLat = 47300
    /\ calc.radiusKm = HINT_CIRCLE_RADIUS_KM
    /\ calc.bearing - 135 \in -30..30

\* C30: a guess on a round whose gameType is unset is measured, penalised
\* and scored with the type country:{game.country}, the country of the
\* game; a guess on a round whose gameType is set with that type, also when
\* the game has another type
C30_EffectiveTypeOfGuess ==
    [][ \A q \in GuessSlots :
          (gs[q].pc = "insert" /\ gs'[q].pc = "idle")
          => LET round == RoundById(gs[q].gameRoundId)
                 type == IF round.gameType = NoType
                         THEN [kind |-> "country",
                               key |-> games[round.gameId].country]
                         ELSE round.gameType
                 loc == CHOOSE l \in pool : l.id = round.locationId
             IN  /\ response'.result = "ok"
                 /\ response'.gameType = type
                 /\ response'.score = calculateScore(response'.distanceKm, type)
                 /\ \A g \in guesses' \ guesses :
                       g.distanceKm = response'.distanceKm
                 /\ response'.distanceKm =
                       IF gs[q].timeout
                       THEN GAME_TYPES[type].timeoutPenalty
                       ELSE IF type.kind = "image"
                       THEN calculatePixelDistance(gs[q].longitude, gs[q].latitude,
                                                   loc.longitude, loc.latitude)
                       ELSE calculateDistance(gs[q].latitude, gs[q].longitude,
                                              loc.latitude, loc.longitude)
      ]_vars

\* a timeout on a legacy round with country switzerland in a game with
\* country slovenia was answered with the type and penalty of Slovenia
C30_Witness ==
    /\ response.kind = "guess"
    /\ response.result = "ok"
    /\ response.gameType = CountrySlovenia
    /\ response.distanceKm = 250000
    /\ RoundById(response.gameRoundId).gameType = NoType
    /\ RoundById(response.gameRoundId).country = "switzerland"

\* a guess on a world round of a country game was answered with the world
\* type
C30_WitnessSet ==
    /\ response.kind = "guess"
    /\ response.result = "ok"
    /\ response.gameType = WorldCapitals
    /\ RoundById(response.gameRoundId).gameType = WorldCapitals
    /\ getEffectiveGameType(games[RoundById(response.gameRoundId).gameId])
         = CountrySwitzerland

====
